---- MODULE Spec2Model ----
(***************************************************************************)
(* Route / fuel-station corridor search: the densifier and the two search  *)
(* methods (kdtree_search.py, geopandas_search.py) and the benchmark       *)
(* harness of main.py.                                                     *)
(*                                                                         *)
(* Arithmetic is exact.  Latitudes and longitudes are integers counting    *)
(* lattice units of 1/Scale degree (Scale = 2 * 69, so that one mile is    *)
(* two units and radius/2 is a whole unit); every value the code derives   *)
(* by division is kept as a numerator over a denominator.  Routes are      *)
(* drawn from the polylines whose segment lengths are whole numbers, so    *)
(* that np.sqrt is exact on every input of the model.                      *)
(***************************************************************************)
EXTENDS Integers, Sequences, FiniteSets, TLC

VARIABLES
    route_points,         \* list of {'lat', 'lng'}
    fuel_locations,       \* list of {'locationId', 'lat', 'lon'}
    distance_miles,       \* search radius in miles
    batch_size,           \* kdtree_search.py:72 (1000 in the code)
    max_distance,         \* argument of interpolate_route_points_scipy, num/den
    entry,                \* the function the caller invoked
    pc,                   \* control point
    interpolated_points,  \* result of interpolate_route_points_scipy
    i,                    \* loop variable of the batch loop
    nearby_indices,       \* set of 0-based indices into fuel_locations
    queried,              \* ghost: how often each densified point was queried
    stations,             \* value returned by the running search method
    error,                \* exception raised by the running call ("none" if none)
    method_name,          \* test_search_method: the method under test
    baseline_memory, start_time, end_time, peak_memory,
    performance,          \* test_search_method: the metrics of this call
    geopandas_stations, geopandas_perf, kdtree_stations, kdtree_perf,
    comparison_data,      \* main: the rows of the comparison table
    printed,              \* main: whether the final station table was printed
    events,               \* ghost: the harness steps taken so far, in order
    rss, wall,            \* environment: upcoming memory and clock readings
    steps,                \* get_route_points: the decoded polyline of every step
    simplify_tolerance,   \* get_route_points: tolerance, lattice units
    all_points,           \* get_route_points: the concatenated step points
    returned_points,      \* get_route_points: the value returned
    formatted_locations,  \* validate_fuel_locations: its argument
    valid_locations, invalid_locations,
    position,             \* validate_fuel_locations: locations already examined
    loaded,               \* value returned by get_fuel_locations_with_prices
    center_lon,           \* find_fuel_stations_geopandas: centroid longitude, num/den
    utm_zone              \* find_fuel_stations_geopandas: the zone computed from it

vars == <<route_points, fuel_locations, distance_miles, batch_size, max_distance,
          entry, pc, interpolated_points, i, nearby_indices, queried, stations,
          error, method_name, baseline_memory, start_time, end_time, peak_memory,
          performance, geopandas_stations, geopandas_perf, kdtree_stations,
          kdtree_perf, comparison_data, printed, events, rss, wall,
          steps, simplify_tolerance, all_points, returned_points,
          formatted_locations, valid_locations, invalid_locations, position, loaded,
          center_lon, utm_zone>>

routevars == <<steps, simplify_tolerance, all_points, returned_points>>

fuelvars == <<formatted_locations, valid_locations, invalid_locations, position, loaded>>

zonevars == <<center_lon, utm_zone>>

\* the state of the collaborators that run before the search methods
upstream == <<routevars, fuelvars, zonevars>>

inputs == <<route_points, fuel_locations, distance_miles, batch_size>>

kdvars == <<interpolated_points, i, nearby_indices, queried>>

harness == <<method_name, baseline_memory, start_time, end_time, peak_memory,
             performance, geopandas_stations, geopandas_perf, kdtree_stations,
             kdtree_perf, comparison_data, printed, events, rss, wall>>

----------------------------------------------------------------------------
(* Bounds of the model *)

MaxLat == 4             \* latitudes 0..MaxLat lattice units
MaxLng == 3             \* longitudes 0..MaxLng lattice units
MaxRoutePts == 3        \* route length
MaxMiles == 2           \* distance_miles in 1..MaxMiles
MaxSpacingNum == 3      \* max_distance = num/den lattice units, direct calls
MaxSpacingDen == 2
MaxBatch == 2           \* batch sizes 1..MaxBatch, and the code's 1000
MaxMem == 1             \* memory readings 0..MaxMem
MaxTime == 1            \* clock readings 0..MaxTime
MaxStepCoord == 2       \* step points on 0..MaxStepCoord squared lattice units
MaxTolerance == 2       \* simplify_tolerance in 0..MaxTolerance lattice units
MaxLocations == 2       \* locations given to validate_fuel_locations
LonDen == 2             \* centroid longitudes are multiples of 1/LonDen degree

(* Program constants *)

MilesPerDegree == 69    \* kdtree_search.py:57
BatchSize == 1000       \* kdtree_search.py:72
DefaultDistance == 1    \* main.py:154, --distance
LatLimit == 90          \* fuel_data.py:84
LonLimit == 180         \* fuel_data.py:84
LonOffset == 180        \* geopandas_search.py:35
ZoneWidth == 6          \* geopandas_search.py:35

Scale == 2 * MilesPerDegree   \* lattice units per degree

NULL == "null"

----------------------------------------------------------------------------
(* Exact arithmetic helpers *)

Sq(x) == x * x

Min(a, b) == IF a < b THEN a ELSE b

Max(a, b) == IF a > b THEN a ELSE b

\* np.sqrt on the perfect squares the model's routes produce
Sqrt(n) == CHOOSE r \in 0..n : r * r = n

IsSquare(n) == \E r \in 0..n : r * r = n

\* np.ceil(a / b) for a >= 0, b > 0
Ceil(a, b) == (a + b - 1) \div b

----------------------------------------------------------------------------
(* interpolate_route_points_scipy, kdtree_search.py:7-42 *)

\* np.sqrt(np.sum(diffs**2, axis=1)), kdtree_search.py:21-22
SegmentLengths(route) ==
    [j \in 1..(Len(route) - 1) |->
        Sqrt(Sq(route[j + 1].lat - route[j].lat) + Sq(route[j + 1].lng - route[j].lng))]

RECURSIVE CumSum(_, _)
CumSum(s, n) == IF n = 0 THEN 0 ELSE CumSum(s, n - 1) + s[n]

\* np.concatenate(([0], np.cumsum(segment_lengths))), kdtree_search.py:23
CumDistance(route) ==
    [j \in 1..Len(route) |-> CumSum(SegmentLengths(route), j - 1)]

\* int(np.ceil(total_distance / max_distance)) + 1, kdtree_search.py:31
NumPointsNoEndpoint(total, md) == Ceil(total * md.den, md.num)

NumPoints(total, md) == Ceil(total * md.den, md.num) + 1

\* np.linspace(0, total_distance, num_points), kdtree_search.py:34:
\* num = 1 gives [0]; otherwise start + k * (stop - start) / (num - 1)
Linspace(total, num) ==
    [k \in 1..num |->
        IF num = 1 THEN [num |-> 0, den |-> 1]
                   ELSE [num |-> (k - 1) * total, den |-> num - 1]]

\* np.searchsorted(x, x_new) (side = left), 0-based: the number of entries < x_new
SearchSorted(cum, d) ==
    Cardinality({j \in 1..Len(cum) : cum[j] * d.den < d.num})

NaNPoint == [lat |-> 0, lng |-> 0, den |-> 0, nan |-> TRUE]

\* the code behind interp1d(kind='linear'): np.interp where the installed scipy
\* hands 1-D data to it, interp1d's own slope formula otherwise
LinearImpls == {"np.interp", "interp1d"}

\* interp1d's linear evaluation of both coordinates at distance d,
\* kdtree_search.py:26-27 and 38:
\* hi = clip(searchsorted, 1, len - 1), lo = hi - 1,
\* slope = (y_hi - y_lo) / (x_hi - x_lo), y = slope * (d - x_lo) + y_lo.
\* On a zero-length bracket the slope formula divides 0 by 0 and the sample is
\* NaN, while np.interp returns the value at the bracket's end.
InterpAt(route, cum, d, impl) ==
    LET hi0 == Min(Max(SearchSorted(cum, d), 1), Len(cum) - 1)
        lo == hi0           \* 1-based index of x_lo
        hi == hi0 + 1       \* 1-based index of x_hi
        L  == cum[hi] - cum[lo]
        off == d.num - cum[lo] * d.den
    IN  IF L = 0
        THEN IF impl = "np.interp"
             THEN [lat |-> route[hi].lat, lng |-> route[hi].lng, den |-> 1, nan |-> FALSE]
             ELSE NaNPoint
        ELSE [lat |-> route[lo].lat * d.den * L + (route[hi].lat - route[lo].lat) * off,
              lng |-> route[lo].lng * d.den * L + (route[hi].lng - route[lo].lng) * off,
              den |-> d.den * L,
              nan |-> FALSE]

interpolate_route_points_scipy(route, md, impl) ==
    LET cum == CumDistance(route)
        total_distance == cum[Len(cum)]
        num_points == NumPoints(total_distance, md)
        distances == Linspace(total_distance, num_points)
    IN  [k \in 1..num_points |-> InterpAt(route, cum, distances[k], impl)]

----------------------------------------------------------------------------
(* find_fuel_stations_kdtree, kdtree_search.py:45-81 *)

\* distance_miles / 69.0 degrees, in lattice units (kdtree_search.py:57)
DistanceDegrees(miles) == (miles * Scale) \div MilesPerDegree

\* max_distance = distance_degrees / 2 (kdtree_search.py:66)
KdMaxDistance(miles) == [num |-> DistanceDegrees(miles), den |-> 2]

\* whether candidate loc lies in the closed ball of radius r around sample s;
\* every comparison with a NaN sample is false
InBallStrict(loc, s, r) ==
    /\ ~s.nan
    /\ Sq(loc.lat * s.den - s.lat) + Sq(loc.lon * s.den - s.lng) < Sq(r) * Sq(s.den)

InBall(loc, s, r) ==
    /\ ~s.nan
    /\ Sq(loc.lat * s.den - s.lat) + Sq(loc.lon * s.den - s.lng) <= Sq(r) * Sq(s.den)

\* tree.query_ball_point(x, r) for one point x: 0-based indices of the candidates
QueryBallPoint(locs, s, r) ==
    {idx \in 0..(Len(locs) - 1) : InBall(locs[idx + 1], s, r)}

\* route_coords[i:i + batch_size], as 1-based positions
BatchShort(n, lo, size) == (lo + 1)..Min(lo + size - 1, n)

Batch(n, lo, size) == (lo + 1)..Min(lo + size, n)

RECURSIVE SortedSeq(_)
\* sorted(nearby_indices)
SortedSeq(S) ==
    IF S = {} THEN <<>>
    ELSE LET m == CHOOSE x \in S : \A y \in S : x <= y
         IN  <<m>> \o SortedSeq(S \ {m})

RECURSIVE DescendingSeq(_)
DescendingSeq(S) ==
    IF S = {} THEN <<>>
    ELSE LET m == CHOOSE x \in S : \A y \in S : x >= y
         IN  <<m>> \o DescendingSeq(S \ {m})

ResultListUnsorted(locs, indices) ==
    LET order == DescendingSeq(indices)
    IN  [k \in 1..Len(order) |-> locs[order[k] + 1]]

\* [fuel_locations[i] for i in sorted(nearby_indices)] (kdtree_search.py:81)
ResultList(locs, indices) ==
    LET order == SortedSeq(indices)
    IN  [k \in 1..Len(order) |-> locs[order[k] + 1]]

\* where control goes when function fn returns
ReturnFrom(fn) == IF entry = fn THEN "done" ELSE "tsm_end"

\* kdtree_search.py:57-73: radius, tree, densified route, empty index set
KdStart ==
    /\ pc = "kd_start"
    /\ max_distance' = KdMaxDistance(distance_miles)
    /\ \E impl \in LinearImpls :
           interpolated_points' =
               interpolate_route_points_scipy(route_points, KdMaxDistance(distance_miles), impl)
    /\ i' = 0
    /\ nearby_indices' = {}
    /\ queried' = [k \in 1..Len(interpolated_points') |-> 0]
    /\ pc' = "kd_loop"
    /\ UNCHANGED <<inputs, entry, stations, error, harness>>
    /\ UNCHANGED upstream

\* kdtree_search.py:75-78: one iteration of the batch loop.  A NaN sample (the
\* 0/0 of a zero-length route) either matches nothing or makes the library
\* reject the query with a ValueError, depending on the scipy version.
KdBatch ==
    /\ pc = "kd_loop"
    /\ i < Len(interpolated_points)
    /\ LET batch == Batch(Len(interpolated_points), i, batch_size)
           r == DistanceDegrees(distance_miles)
       IN  \/ /\ nearby_indices' = nearby_indices \cup
                    UNION {QueryBallPoint(fuel_locations, interpolated_points[k], r) :
                             k \in batch}
              /\ queried' = [k \in DOMAIN queried |->
                                IF k \in batch THEN queried[k] + 1 ELSE queried[k]]
              /\ i' = i + batch_size
              /\ pc' = "kd_loop"
              /\ UNCHANGED error
           \/ /\ \E k \in batch : interpolated_points[k].nan
              /\ error' = "ValueError"
              /\ pc' = "raised"
              /\ UNCHANGED <<i, nearby_indices, queried>>
    /\ UNCHANGED <<inputs, max_distance, entry, interpolated_points, stations, harness>>
    /\ UNCHANGED upstream

\* kdtree_search.py:81: the loop is over, return the stations in index order
KdReturn ==
    /\ pc = "kd_loop"
    /\ i >= Len(interpolated_points)
    /\ stations' = ResultList(fuel_locations, nearby_indices)
    /\ pc' = ReturnFrom("kdtree")
    /\ UNCHANGED <<inputs, max_distance, entry, kdvars, error, harness>>
    /\ UNCHANGED upstream

\* a direct call of interpolate_route_points_scipy(route_points, max_distance)
Interpolate ==
    /\ pc = "interpolate"
    /\ \E impl \in LinearImpls :
           interpolated_points' =
               interpolate_route_points_scipy(route_points, max_distance, impl)
    /\ pc' = "done"
    /\ UNCHANGED <<inputs, max_distance, entry, i, nearby_indices, queried, stations,
                   error, harness>>
    /\ UNCHANGED upstream

----------------------------------------------------------------------------
(* find_fuel_stations_geopandas, geopandas_search.py:6-51 *)

\* to_crs(utm_crs), geopandas_search.py:39-40.  The transverse Mercator
\* projection is conformal and, over a route of a few miles, affine to first
\* order: northing grows with latitude, easting with longitude times the cosine
\* of the latitude.  Projected coordinates count units of a tenth of a mile
\* (160.934 m): a lattice unit of latitude (1/138 degree) is 5 of them and, at
\* the latitude whose cosine is 4/5, a lattice unit of longitude is 4.
NorthingPerLat == 5

EastingPerLon == 4

Project(lat, lon) == [x |-> EastingPerLon * lon, y |-> NorthingPerLat * lat]

\* 1609.34 m, in projected units (geopandas_search.py:43)
ProjUnitsPerMile == 10

\* buffer_distance = distance_miles * 1609.34 (geopandas_search.py:43)
BufferDistance(miles) == miles * ProjUnitsPerMile

\* LineString(route_coords) projected (geopandas_search.py:18-19, 39)
RouteUtm(route) == [j \in 1..Len(route) |-> Project(route[j].lat, route[j].lng)]

Dist2(p, q) == Sq(p.x - q.x) + Sq(p.y - q.y)

\* c lies within distance r of segment a-b and its nearest point of the segment
\* is the foot of the perpendicular: the straight sides of the buffer, which are
\* exact parallels of the segment
WithinFlat(c, a, b, r) ==
    LET len2  == Dist2(a, b)
        t     == (c.x - a.x) * (b.x - a.x) + (c.y - a.y) * (b.y - a.y)
        cross == (c.x - a.x) * (b.y - a.y) - (c.y - a.y) * (b.x - a.x)
    IN  /\ len2 > 0
        /\ 0 <= t
        /\ t <= len2
        /\ Sq(cross) <= Sq(r) * len2

\* route_gdf_utm.geometry.buffer(buffer_distance), geopandas_search.py:44.
\* Around every route vertex (end caps, joins) GEOS replaces the circle of the
\* buffer radius by a polygon inscribed in it, 16 segments per quarter circle:
\* a point within 99/100 of the squared radius of a vertex is inside it, a point
\* farther than the radius is outside, and in between (the circle included) it
\* depends on where the polygon's vertices fall.
InBufferForSure(c, line, r) ==
    \/ \E j \in 1..(Len(line) - 1) : WithinFlat(c, line[j], line[j + 1], r)
    \/ \E j \in 1..Len(line) : 100 * Dist2(c, line[j]) <= 99 * Sq(r)

InBufferAtBest(c, line, r) ==
    \/ \E j \in 1..(Len(line) - 1) : WithinFlat(c, line[j], line[j + 1], r)
    \/ \E j \in 1..Len(line) : Dist2(c, line[j]) <= Sq(r)

\* fuel_gdf_utm.intersects(route_buffer.iloc[0]), geopandas_search.py:47: the
\* index sets the boolean mask can select (0-based)
IntersectsEnvelope(locs, route, miles) ==
    LET line == RouteUtm(route)
        r    == BufferDistance(miles)
        xs   == {line[j].x : j \in 1..Len(line)}
        ys   == {line[j].y : j \in 1..Len(line)}
        Lo(S) == CHOOSE v \in S : \A w \in S : v <= w
        Hi(S) == CHOOSE v \in S : \A w \in S : v >= w
        Gap(v, S) == Max(Max(Lo(S) - v, v - Hi(S)), 0)
        Near(c) == Sq(Gap(c.x, xs)) + Sq(Gap(c.y, ys)) <= Sq(r)
    IN  {{idx \in 0..(Len(locs) - 1) :
            Near(Project(locs[idx + 1].lat, locs[idx + 1].lon))}}

Intersects(locs, route, miles) ==
    LET line == RouteUtm(route)
        r    == BufferDistance(miles)
        sure == {idx \in 0..(Len(locs) - 1) :
                   InBufferForSure(Project(locs[idx + 1].lat, locs[idx + 1].lon), line, r)}
        best == {idx \in 0..(Len(locs) - 1) :
                   InBufferAtBest(Project(locs[idx + 1].lat, locs[idx + 1].lon), line, r)}
    IN  {sure \cup extra : extra \in SUBSET (best \ sure)}

\* nearby_stations[[...]].to_dict('records'), geopandas_search.py:50-51: the
\* selected rows, in the order of fuel_locations
Records(locs, indices) ==
    LET order == SortedSeq(indices)
    IN  [k \in 1..Len(order) |-> locs[order[k] + 1]]

GeopandasInPlace ==
    /\ pc = "geopandas"
    /\ \E selected \in Intersects(fuel_locations, route_points, distance_miles) :
           /\ stations' = Records(fuel_locations, selected)
           /\ fuel_locations' = Records(fuel_locations, selected)
    /\ pc' = ReturnFrom("geopandas")
    /\ UNCHANGED <<route_points, distance_miles, batch_size, max_distance, entry,
                   kdvars, error, harness>>
    /\ UNCHANGED upstream

\* geopandas_search.py:18-51: the whole call
Geopandas ==
    /\ pc = "geopandas"
    /\ \E selected \in Intersects(fuel_locations, route_points, distance_miles) :
           stations' = Records(fuel_locations, selected)
    /\ pc' = ReturnFrom("geopandas")
    /\ UNCHANGED <<inputs, max_distance, entry, kdvars, error, harness>>
    /\ UNCHANGED upstream

----------------------------------------------------------------------------
(* Inputs *)

Points == [lat : 0..MaxLat, lng : 0..MaxLng]

Origin == [lat |-> 0, lng |-> 0]

\* the points at a whole, positive distance of p
Reachable(p) ==
    {q \in Points : q # p /\ IsSquare(Sq(q.lat - p.lat) + Sq(q.lng - p.lng))}

RECURSIVE RoutesOfLen(_)
\* the routes of n points that leave the lattice origin: consecutive points
\* distinct, segment lengths whole
RoutesOfLen(n) ==
    IF n = 1 THEN {<<Origin>>}
    ELSE UNION {{Append(r, q) : q \in Reachable(r[Len(r)])} : r \in RoutesOfLen(n - 1)}

ValidRoutes == UNION {RoutesOfLen(n) : n \in 2..MaxRoutePts}

\* two identical points
DegenerateRoute == <<Origin, Origin>>

IsValidRoute(route) ==
    /\ Len(route) >= 2
    /\ \A j \in 1..(Len(route) - 1) : route[j] # route[j + 1]

Candidate(id, p) == [locationId |-> id, lat |-> p.lat, lon |-> p.lng]

----------------------------------------------------------------------------
(* test_search_method, main.py:40-91 *)

\* ghost: the step taken, for which method, and the reading it took (if any)
Log(step, reading) == Append(events, <<method_name, step, reading>>)

\* main.py:58, gc.collect() before the test
TsmGcBefore ==
    /\ pc = "tsm_gc_before"
    /\ events' = Log("gc", NULL)
    /\ pc' = "tsm_baseline"
    /\ UNCHANGED <<inputs, max_distance, entry, kdvars, stations, error, method_name,
                   baseline_memory, start_time, end_time, peak_memory, performance,
                   geopandas_stations, geopandas_perf, kdtree_stations, kdtree_perf,
                   comparison_data, printed, rss, wall>>
    /\ UNCHANGED upstream

\* main.py:61, baseline_memory = measure_memory_usage()
TsmBaseline ==
    /\ pc = "tsm_baseline"
    /\ baseline_memory' = Head(rss)
    /\ rss' = Tail(rss)
    /\ events' = Log("baseline", Head(rss))
    /\ pc' = "tsm_start"
    /\ UNCHANGED <<inputs, max_distance, entry, kdvars, stations, error, method_name,
                   start_time, end_time, peak_memory, performance,
                   geopandas_stations, geopandas_perf, kdtree_stations, kdtree_perf,
                   comparison_data, printed, wall>>
    /\ UNCHANGED upstream

\* main.py:64, start_time = time()
TsmStart ==
    /\ pc = "tsm_start"
    /\ start_time' = Head(wall)
    /\ wall' = Tail(wall)
    /\ events' = Log("start", Head(wall))
    /\ pc' = "tsm_invoke"
    /\ UNCHANGED <<inputs, max_distance, entry, kdvars, stations, error, method_name,
                   baseline_memory, end_time, peak_memory, performance,
                   geopandas_stations, geopandas_perf, kdtree_stations, kdtree_perf,
                   comparison_data, printed, rss>>
    /\ UNCHANGED upstream

\* main.py:65, the call of search_method(route_points, fuel_locations, distance_miles)
TsmInvoke ==
    /\ pc = "tsm_invoke"
    /\ events' = Log("invoke", NULL)
    /\ pc' = IF method_name = "GeoPandas" THEN "geopandas" ELSE "kd_start"
    /\ UNCHANGED <<inputs, max_distance, entry, kdvars, stations, error, method_name,
                   baseline_memory, start_time, end_time, peak_memory, performance,
                   geopandas_stations, geopandas_perf, kdtree_stations, kdtree_perf,
                   comparison_data, printed, rss, wall>>
    /\ UNCHANGED upstream

\* main.py:66, end_time = time(), once the method has returned
TsmEnd ==
    /\ pc = "tsm_end"
    /\ end_time' = Head(wall)
    /\ wall' = Tail(wall)
    /\ events' = Log("end", Head(wall))
    /\ pc' = "tsm_peak"
    /\ UNCHANGED <<inputs, max_distance, entry, kdvars, stations, error, method_name,
                   baseline_memory, start_time, peak_memory, performance,
                   geopandas_stations, geopandas_perf, kdtree_stations, kdtree_perf,
                   comparison_data, printed, rss>>
    /\ UNCHANGED upstream

\* main.py:69-70, peak_memory = measure_memory_usage(), then gc.collect()
TsmPeak ==
    /\ pc = "tsm_peak"
    /\ peak_memory' = Head(rss)
    /\ rss' = Tail(rss)
    /\ events' = Log("peak", Head(rss))
    /\ pc' = "tsm_perf"
    /\ UNCHANGED <<inputs, max_distance, entry, kdvars, stations, error, method_name,
                   baseline_memory, start_time, end_time, performance,
                   geopandas_stations, geopandas_perf, kdtree_stations, kdtree_perf,
                   comparison_data, printed, wall>>
    /\ UNCHANGED upstream

PerformanceSwapped(start, end, baseline, peak, found) ==
    [time |-> start - end, memory |-> baseline - peak, count |-> Len(found)]

\* main.py:73-77
Performance(start, end, baseline, peak, found) ==
    [time |-> end - start, memory |-> peak - baseline, count |-> Len(found)]

\* main.py:73-89, the metrics, then create_route_map, which only reads its arguments
TsmPerf ==
    /\ pc = "tsm_perf"
    /\ performance' =
           Performance(start_time, end_time, baseline_memory, peak_memory, stations)
    /\ events' = Log("perf", NULL)
    /\ pc' = "tsm_return"
    /\ UNCHANGED <<inputs, max_distance, entry, kdvars, stations, error, method_name,
                   baseline_memory, start_time, end_time, peak_memory,
                   geopandas_stations, geopandas_perf, kdtree_stations, kdtree_perf,
                   comparison_data, printed, rss, wall>>
    /\ UNCHANGED upstream

\* main.py:91 and main.py:213-227: return stations, performance to main, which
\* binds them and goes on to the next call
TsmReturn ==
    /\ pc = "tsm_return"
    /\ IF method_name = "GeoPandas"
         THEN /\ geopandas_stations' = stations
              /\ geopandas_perf' = performance
              /\ pc' = "main_call_kdtree"
              /\ UNCHANGED <<kdtree_stations, kdtree_perf>>
         ELSE /\ kdtree_stations' = stations
              /\ kdtree_perf' = performance
              /\ pc' = "main_compare"
              /\ UNCHANGED <<geopandas_stations, geopandas_perf>>
    /\ events' = Log("return", NULL)
    /\ baseline_memory' = NULL
    /\ start_time' = NULL
    /\ end_time' = NULL
    /\ peak_memory' = NULL
    /\ performance' = NULL
    /\ stations' = NULL
    /\ UNCHANGED <<inputs, max_distance, entry, kdvars, error, method_name,
                   comparison_data, printed, rss, wall>>
    /\ UNCHANGED upstream

----------------------------------------------------------------------------
(* main, main.py:212-251 *)

\* main.py:213-219
MainCallGeopandas ==
    /\ pc = "main_call_geopandas"
    /\ method_name' = "GeoPandas"
    /\ pc' = "tsm_gc_before"
    /\ UNCHANGED <<inputs, max_distance, entry, kdvars, stations, error,
                   baseline_memory, start_time, end_time, peak_memory, performance,
                   geopandas_stations, geopandas_perf, kdtree_stations, kdtree_perf,
                   comparison_data, printed, events, rss, wall>>
    /\ UNCHANGED upstream

\* main.py:221-227
MainCallKdtree ==
    /\ pc = "main_call_kdtree"
    /\ method_name' = "KDTree"
    /\ pc' = "tsm_gc_before"
    /\ UNCHANGED <<inputs, max_distance, entry, kdvars, stations, error,
                   baseline_memory, start_time, end_time, peak_memory, performance,
                   geopandas_stations, geopandas_perf, kdtree_stations, kdtree_perf,
                   comparison_data, printed, events, rss, wall>>
    /\ UNCHANGED upstream

\* {s['locationId'] for s in ...}, main.py:230-231
Ids(found) == {found[k].locationId : k \in 1..Len(found)}

ComparisonDataByCount(gs, gperf, ks, kperf) ==
    [time     |-> <<gperf.time, kperf.time>>,
     memory   |-> <<gperf.memory, kperf.memory>>,
     total    |-> <<gperf.count, kperf.count>>,
     matching |-> <<Cardinality(Ids(gs) \cap Ids(ks)), Cardinality(Ids(gs) \cap Ids(ks))>>,
     unique   |-> <<gperf.count - Cardinality(Ids(gs) \cap Ids(ks)),
                    kperf.count - Cardinality(Ids(gs) \cap Ids(ks))>>]

\* main.py:235-242, the rows of the comparison table (GeoPandas, KDTree)
ComparisonData(gs, gperf, ks, kperf) ==
    [time     |-> <<gperf.time, kperf.time>>,
     memory   |-> <<gperf.memory, kperf.memory>>,
     total    |-> <<gperf.count, kperf.count>>,
     matching |-> <<Cardinality(Ids(gs) \cap Ids(ks)), Cardinality(Ids(gs) \cap Ids(ks))>>,
     unique   |-> <<Cardinality(Ids(gs) \ Ids(ks)), Cardinality(Ids(ks) \ Ids(gs))>>]

\* main.py:229-243
MainCompare ==
    /\ pc = "main_compare"
    /\ comparison_data' =
           ComparisonData(geopandas_stations, geopandas_perf, kdtree_stations, kdtree_perf)
    /\ pc' = "main_print"
    /\ UNCHANGED <<inputs, max_distance, entry, kdvars, stations, error, method_name,
                   baseline_memory, start_time, end_time, peak_memory, performance,
                   geopandas_stations, geopandas_perf, kdtree_stations, kdtree_perf,
                   printed, events, rss, wall>>
    /\ UNCHANGED upstream

\* main.py:246-251: the station table is printed when KDTree found something
MainPrint ==
    /\ pc = "main_print"
    /\ printed' = (kdtree_stations # <<>>)
    /\ pc' = "done"
    /\ UNCHANGED <<inputs, max_distance, entry, kdvars, stations, error, method_name,
                   baseline_memory, start_time, end_time, peak_memory, performance,
                   geopandas_stations, geopandas_perf, kdtree_stations, kdtree_perf,
                   comparison_data, events, rss, wall>>
    /\ UNCHANGED upstream

----------------------------------------------------------------------------
(* get_route_points with detailed=True, route_analysis.py:53-107 *)

RECURSIVE Concat(_)
\* all_points.extend(step_points) over every step, route_analysis.py:78-82
Concat(ss) == IF ss = <<>> THEN <<>> ELSE Head(ss) \o Concat(Tail(ss))

\* squared distance of point c to the segment a-b, as num/den
SegDist2(c, a, b) ==
    LET len2 == Sq(b.lat - a.lat) + Sq(b.lng - a.lng)
        t    == (c.lat - a.lat) * (b.lat - a.lat) + (c.lng - a.lng) * (b.lng - a.lng)
        da   == Sq(c.lat - a.lat) + Sq(c.lng - a.lng)
        db   == Sq(c.lat - b.lat) + Sq(c.lng - b.lng)
    IN  IF len2 = 0 \/ t <= 0 THEN [num |-> da, den |-> 1]
        ELSE IF t >= len2 THEN [num |-> db, den |-> 1]
        ELSE [num |-> len2 * da - Sq(t), den |-> len2]

Farther(d, e) == d.num * e.den > e.num * d.den

\* the first interior point of pts[lo..hi] farthest from the segment pts[lo]-pts[hi]
Farthest(pts, lo, hi) ==
    CHOOSE k \in (lo + 1)..(hi - 1) :
        \A j \in (lo + 1)..(hi - 1) :
            /\ ~Farther(SegDist2(pts[j], pts[lo], pts[hi]), SegDist2(pts[k], pts[lo], pts[hi]))
            /\ j < k => Farther(SegDist2(pts[k], pts[lo], pts[hi]),
                                SegDist2(pts[j], pts[lo], pts[hi]))

RECURSIVE Kept(_, _, _, _)
\* line.simplify(tolerance, preserve_topology=True), route_analysis.py:97: the
\* sets of positions of pts[lo..hi] the simplifier can keep.  It is Douglas-
\* Peucker: a section whose farthest point is within the tolerance of its chord
\* is replaced by the chord, any other section is split at its farthest point;
\* and the topology-preserving simplifier also splits a section within the
\* tolerance when the chord would cross the rest of the line or leave a closed
\* line with too few points.
Kept(pts, lo, hi, tol) ==
    IF hi <= lo + 1 THEN {{lo, hi}}
    ELSE LET k     == Farthest(pts, lo, hi)
             d     == SegDist2(pts[k], pts[lo], pts[hi])
             split == {a \cup b : a \in Kept(pts, lo, k, tol), b \in Kept(pts, k, hi, tol)}
         IN  IF d.num > Sq(tol) * d.den THEN split ELSE {{lo, hi}} \cup split

\* the points of pts at the positions in K, in order
SubSeqAt(pts, K) ==
    LET order == SortedSeq(K)
    IN  [k \in 1..Len(order) |-> pts[order[k]]]

SimplifyLosingEnd(pts, tol) ==
    {SubSeqAt(pts, K \ {Len(pts)}) : K \in Kept(pts, 1, Len(pts), tol)}

\* route_analysis.py:88-100: coords, LineString, simplify, simplified_points
Simplify(pts, tol) ==
    {SubSeqAt(pts, K) : K \in Kept(pts, 1, Len(pts), tol)}

\* route_analysis.py:78-82
GrpCollect ==
    /\ pc = "grp_collect"
    /\ all_points' = Concat(steps)
    /\ pc' = "grp_tolerance"
    /\ UNCHANGED <<inputs, max_distance, entry, kdvars, stations, error, harness,
                   steps, simplify_tolerance, returned_points, fuelvars, zonevars>>

\* route_analysis.py:84-105: if simplify_tolerance: ... return simplified_points
GrpSimplify ==
    /\ pc = "grp_tolerance"
    /\ simplify_tolerance # 0
    /\ \E simplified_points \in Simplify(all_points, simplify_tolerance) :
           returned_points' = simplified_points
    /\ pc' = "done"
    /\ UNCHANGED <<inputs, max_distance, entry, kdvars, stations, error, harness,
                   steps, simplify_tolerance, all_points, fuelvars, zonevars>>

\* route_analysis.py:84 and 107: a tolerance of 0 is falsy, return all_points
GrpReturnAll ==
    /\ pc = "grp_tolerance"
    /\ simplify_tolerance = 0
    /\ returned_points' = all_points
    /\ pc' = "done"
    /\ UNCHANGED <<inputs, max_distance, entry, kdvars, stations, error, harness,
                   steps, simplify_tolerance, all_points, fuelvars, zonevars>>

----------------------------------------------------------------------------
(* validate_fuel_locations and get_fuel_locations_with_prices,
   fuel_data.py:54-131.  A coordinate of a location is a record [kind, val]:
   a number val, a text float() parses to val, a text float() rejects ("junk"),
   None, the float nan, or no value at all because the key is absent. *)

\* float(x) raises ValueError, TypeError or, through location[...], KeyError
Converts(raw) == raw.kind \in {"number", "text", "nan"}

\* -90 <= lat <= 90 and -180 <= lon <= 180, fuel_data.py:84; every comparison
\* with nan is false
Between(raw, limit) == raw.kind # "nan" /\ -limit <= raw.val /\ raw.val <= limit

\* fuel_data.py:81-90: the branch that appends to valid_locations
PassesValidation(location) ==
    /\ Converts(location.lat)
    /\ Converts(location.lon)
    /\ ~(~Between(location.lat, LatLimit) \/ ~Between(location.lon, LonLimit))

\* loc['lat'], loc['lon'] can be read
HasCoordinateKeys(location) == location.lat.kind # "absent" /\ location.lon.kind # "absent"

\* fuel_data.py:124-128: the rows are merged with their prices; merge_fuel_data
\* reads location['lat'] and location['lon'] of every row (fuel_data.py:65-66)
GetFuelMerge ==
    /\ pc = "gfl_merge"
    /\ IF \A k \in 1..Len(formatted_locations) : HasCoordinateKeys(formatted_locations[k])
         THEN pc' = "vfl_loop" /\ UNCHANGED error
         ELSE pc' = "raised" /\ error' = "KeyError"
    /\ UNCHANGED <<inputs, max_distance, entry, kdvars, stations, harness,
                   routevars, fuelvars, zonevars>>

\* fuel_data.py:80-90: one iteration of the loop
ValidateStep ==
    /\ pc = "vfl_loop"
    /\ position < Len(formatted_locations)
    /\ LET location == formatted_locations[position + 1]
       IN  IF PassesValidation(location)
           THEN /\ valid_locations' = Append(valid_locations, location)
                /\ UNCHANGED invalid_locations
           ELSE /\ invalid_locations' = Append(invalid_locations, location)
                /\ UNCHANGED valid_locations
    /\ position' = position + 1
    /\ UNCHANGED <<inputs, max_distance, entry, kdvars, stations, error, harness,
                   routevars, formatted_locations, loaded, zonevars, pc>>

\* fuel_data.py:92-105: the validation report; the table of invalid locations
\* reads loc['lat'] and loc['lon'] of each of them
ValidateReport ==
    /\ pc = "vfl_loop"
    /\ position >= Len(formatted_locations)
    /\ IF \A k \in 1..Len(invalid_locations) : HasCoordinateKeys(invalid_locations[k])
         THEN pc' = "vfl_return" /\ UNCHANGED error
         ELSE pc' = "raised" /\ error' = "KeyError"
    /\ UNCHANGED <<inputs, max_distance, entry, kdvars, stations, harness,
                   routevars, fuelvars, zonevars>>

\* fuel_data.py:107: return valid_locations, invalid_locations
ValidateReturn ==
    /\ pc = "vfl_return"
    /\ pc' = IF entry = "validate_fuel_locations" THEN "done" ELSE "gfl_return"
    /\ UNCHANGED <<inputs, max_distance, entry, kdvars, stations, error, harness,
                   routevars, fuelvars, zonevars>>

\* fuel_data.py:129-131: valid_locations, _ = ...; return valid_locations
GetFuelReturn ==
    /\ pc = "gfl_return"
    /\ loaded' = valid_locations
    /\ pc' = "done"
    /\ UNCHANGED <<inputs, max_distance, entry, kdvars, stations, error, harness,
                   routevars, formatted_locations, valid_locations, invalid_locations,
                   position, zonevars>>

----------------------------------------------------------------------------
(* The UTM zone of find_fuel_stations_geopandas, geopandas_search.py:34-40.
   Longitudes are in degrees, num/den. *)

\* int(x) for x = a / b, b > 0: truncation towards zero
Trunc(a, b) == IF a >= 0 THEN a \div b ELSE -((-a) \div b)

\* int((center_lon + 180) / 6) + 1, geopandas_search.py:35
UtmZoneOf(lon) == Trunc(lon.num + LonOffset * lon.den, ZoneWidth * lon.den) + 1

\* the zones "+proj=utm +zone=..." accepts, geopandas_search.py:36-40
UtmZones == 1..60

\* geopandas_search.py:34-36
UtmZone ==
    /\ pc = "utm_zone"
    /\ utm_zone' = UtmZoneOf(center_lon)
    /\ pc' = "utm_project"
    /\ UNCHANGED <<inputs, max_distance, entry, kdvars, stations, error, harness,
                   routevars, fuelvars, center_lon>>

\* geopandas_search.py:39-40: to_crs(utm_crs) rejects a zone that does not exist
ToCrs ==
    /\ pc = "utm_project"
    /\ IF utm_zone \in UtmZones
         THEN pc' = "done" /\ UNCHANGED error
         ELSE pc' = "raised" /\ error' = "CRSError"
    /\ UNCHANGED <<inputs, max_distance, entry, kdvars, stations, harness,
                   routevars, fuelvars, zonevars>>

----------------------------------------------------------------------------
(* Initial states and specifications *)

BatchSizes == (1..MaxBatch) \cup {BatchSize}

Spacings == [num : 1..MaxSpacingNum, den : 1..MaxSpacingDen]

\* one candidate anywhere on the lattice
OneCandidate == {<<Candidate(1, p)>> : p \in Points}

\* two candidates anywhere on the lattice, with different or equal identifiers
TwoCandidates ==
    {<<Candidate(1, p), Candidate(id, q)>> : p \in Points, q \in Points, id \in {1, 2}}

\* the readings measure_memory_usage() and time() will return, the clock never
\* running backwards
RssTraces == [1..4 -> 0..MaxMem]

WallTraces ==
    {w \in [1..4 -> 0..MaxTime] : \A k \in 1..3 : w[k] <= w[k + 1]}

Quiet == [k \in 1..4 |-> 0]

InitRouteVars ==
    /\ steps = <<>>
    /\ simplify_tolerance = 0
    /\ all_points = <<>>
    /\ returned_points = NULL

InitFuelVars ==
    /\ formatted_locations = <<>>
    /\ valid_locations = <<>>
    /\ invalid_locations = <<>>
    /\ position = 0
    /\ loaded = NULL

InitZoneVars ==
    /\ center_lon = NULL
    /\ utm_zone = NULL

\* nothing has run upstream
InitUpstream == InitRouteVars /\ InitFuelVars /\ InitZoneVars

InitDensifyLocals ==
    /\ interpolated_points = <<>>
    /\ i = 0
    /\ nearby_indices = {}
    /\ queried = <<>>
    /\ stations = NULL
    /\ error = "none"
    /\ method_name = NULL
    /\ baseline_memory = NULL
    /\ start_time = NULL
    /\ end_time = NULL
    /\ peak_memory = NULL
    /\ performance = NULL
    /\ geopandas_stations = NULL
    /\ geopandas_perf = NULL
    /\ kdtree_stations = NULL
    /\ kdtree_perf = NULL
    /\ comparison_data = NULL
    /\ printed = FALSE
    /\ events = <<>>

InitLocals ==
    /\ max_distance = NULL
    /\ InitDensifyLocals

\* main() on two-point routes and one or two candidates, a quiet environment
Init ==
    /\ route_points \in RoutesOfLen(2) \cup {DegenerateRoute}
    /\ fuel_locations \in OneCandidate \cup TwoCandidates
    /\ distance_miles = DefaultDistance
    /\ batch_size \in BatchSizes
    /\ entry = "main"
    /\ pc = "main_call_geopandas"
    /\ rss = Quiet
    /\ wall = Quiet
    /\ InitLocals
    /\ InitUpstream

\* main() on one route and one candidate, under every environment
InitBench ==
    /\ route_points = <<Origin, [lat |-> 0, lng |-> 1]>>
    /\ fuel_locations \in OneCandidate
    /\ distance_miles = DefaultDistance
    /\ batch_size = BatchSize
    /\ entry = "main"
    /\ pc = "main_call_geopandas"
    /\ rss \in RssTraces
    /\ wall \in WallTraces
    /\ InitLocals
    /\ InitUpstream

\* a direct call of either search method
InitSearch ==
    /\ route_points \in ValidRoutes \cup {DegenerateRoute}
    /\ fuel_locations \in OneCandidate
    /\ distance_miles \in 1..MaxMiles
    /\ \/ entry = "kdtree" /\ pc = "kd_start" /\ batch_size \in BatchSizes
       \/ entry = "geopandas" /\ pc = "geopandas" /\ batch_size = BatchSize
    /\ rss = Quiet
    /\ wall = Quiet
    /\ InitLocals
    /\ InitUpstream

\* a direct call of interpolate_route_points_scipy
InitDensify ==
    /\ route_points \in ValidRoutes \cup {DegenerateRoute}
    /\ fuel_locations = <<>>
    /\ distance_miles = DefaultDistance
    /\ batch_size = BatchSize
    /\ entry = "interpolate"
    /\ pc = "interpolate"
    /\ rss = Quiet
    /\ wall = Quiet
    /\ max_distance \in Spacings
    /\ InitDensifyLocals
    /\ InitUpstream

NextSearch == KdStart \/ KdBatch \/ KdReturn \/ Geopandas

Next ==
    \/ MainCallGeopandas \/ MainCallKdtree \/ MainCompare \/ MainPrint
    \/ TsmGcBefore \/ TsmBaseline \/ TsmStart \/ TsmInvoke
    \/ TsmEnd \/ TsmPeak \/ TsmPerf \/ TsmReturn
    \/ KdStart \/ KdBatch \/ KdReturn \/ Geopandas

Spec == Init /\ [][Next]_vars

SpecBench == InitBench /\ [][Next]_vars

SpecSearch == InitSearch /\ [][NextSearch]_vars

SpecDensify == InitDensify /\ [][Interpolate]_vars

\* no search is under way
InitNoSearch ==
    /\ route_points = <<>>
    /\ fuel_locations = <<>>
    /\ distance_miles = DefaultDistance
    /\ batch_size = BatchSize
    /\ rss = Quiet
    /\ wall = Quiet
    /\ InitLocals

StepPoints == [lat : 0..MaxStepCoord, lng : 0..MaxStepCoord]

\* the polylines a step decodes to: two or three points
StepPolylines == UNION {[1..n -> StepPoints] : n \in {2, 3}}

\* one step, or two steps the second of which starts where the first ends
StepLists ==
    {<<s>> : s \in StepPolylines}
        \cup {<<s, <<s[Len(s)], q>>>> : s \in StepPolylines, q \in StepPoints}

\* a call of get_route_points(..., detailed=True, simplify_tolerance)
InitSimplify ==
    /\ InitNoSearch
    /\ entry = "get_route_points"
    /\ pc = "grp_collect"
    /\ steps \in StepLists
    /\ simplify_tolerance \in 0..MaxTolerance
    /\ all_points = <<>>
    /\ returned_points = NULL
    /\ InitFuelVars
    /\ InitZoneVars

NextSimplify == GrpCollect \/ GrpSimplify \/ GrpReturnAll

SpecSimplify == InitSimplify /\ [][NextSimplify]_vars

Raw(kind, val) == [kind |-> kind, val |-> val]

\* latitudes around both limits, in every form a stored value takes
LatValues ==
    {Raw("number", v) : v \in {-LatLimit - 1, -LatLimit, LatLimit, LatLimit + 1}}
        \cup {Raw("text", LatLimit), Raw("junk", 0), Raw("none", 0), Raw("nan", 0),
              Raw("absent", 0)}

LonValues ==
    {Raw("number", v) : v \in {-LonLimit - 1, -LonLimit, LonLimit, LonLimit + 1}}
        \cup {Raw("junk", 0), Raw("absent", 0)}

\* lists of n locations, the locationId being the position in the list
LocationLists(n) ==
    {[k \in 1..n |-> [locationId |-> k, lat |-> c[k][1], lon |-> c[k][2]]] :
        c \in [1..n -> LatValues \X LonValues]}

\* a call of validate_fuel_locations, or of get_fuel_locations_with_prices on
\* the rows of the database
InitValidate ==
    /\ InitNoSearch
    /\ \/ entry = "validate_fuel_locations" /\ pc = "vfl_loop"
       \/ entry = "get_fuel_locations_with_prices" /\ pc = "gfl_merge"
    /\ \E n \in 0..MaxLocations : formatted_locations \in LocationLists(n)
    /\ valid_locations = <<>>
    /\ invalid_locations = <<>>
    /\ position = 0
    /\ loaded = NULL
    /\ InitRouteVars
    /\ InitZoneVars

NextValidate ==
    GetFuelMerge \/ ValidateStep \/ ValidateReport \/ ValidateReturn \/ GetFuelReturn

SpecValidate == InitValidate /\ [][NextValidate]_vars

\* the centroid longitudes of routes between -180 and 180 degrees
CenterLons == {[num |-> n, den |-> LonDen] : n \in (-LonLimit * LonDen)..(LonLimit * LonDen)}

\* find_fuel_stations_geopandas at the computation of the zone
InitZone ==
    /\ InitNoSearch
    /\ entry = "utm_zone"
    /\ pc = "utm_zone"
    /\ center_lon \in CenterLons
    /\ utm_zone = NULL
    /\ InitRouteVars
    /\ InitFuelVars

NextZone == UtmZone \/ ToCrs

SpecZone == InitZone /\ [][NextZone]_vars

----------------------------------------------------------------------------
(* Properties *)

RECURSIVE TotalArcLength(_)
\* the sum of the degree-space Euclidean segment lengths of a route
TotalArcLength(route) ==
    IF Len(route) < 2 THEN 0
    ELSE Sqrt(Sq(route[2].lat - route[1].lat) + Sq(route[2].lng - route[1].lng))
         + TotalArcLength(Tail(route))

\* sample s is the route point p
SamePoint(s, p) == ~s.nan /\ s.lat = p.lat * s.den /\ s.lng = p.lng * s.den

\* C2: on a valid route, interpolate_route_points_scipy returns exactly
\* ceil(totalArcLength / maxSpacing) + 1 points, the first the route's first
\* point and the last the route's last point.
C2_DensifyCountAndEndpoints ==
    (entry = "interpolate" /\ pc = "done" /\ IsValidRoute(route_points)) =>
        LET total == TotalArcLength(route_points)
            n     == Len(interpolated_points)
        IN  /\ (n - 1) * max_distance.num >= total * max_distance.den
            /\ (n - 2) * max_distance.num < total * max_distance.den
            /\ SamePoint(interpolated_points[1], route_points[1])
            /\ SamePoint(interpolated_points[n], route_points[Len(route_points)])

\* a three-point route densified at a spacing that does not divide its length
C2_Witness ==
    /\ entry = "interpolate"
    /\ pc = "done"
    /\ Len(route_points) = 3
    /\ IsValidRoute(route_points)
    /\ (TotalArcLength(route_points) * max_distance.den) % max_distance.num # 0
    /\ Len(interpolated_points) > 4

\* Distances to a polyline, by clamped projection onto each segment: the
\* squared distance of c to segment a-b is |c-a|^2 - t^2/|b-a|^2 where the foot
\* of the perpendicular falls inside the segment, and the squared distance to
\* the nearer end otherwise.
Foot(c, a, b) == (c.x - a.x) * (b.x - a.x) + (c.y - a.y) * (b.y - a.y)

FootInside(c, a, b) ==
    Dist2(a, b) > 0 /\ 0 <= Foot(c, a, b) /\ Foot(c, a, b) <= Dist2(a, b)

SegDistLeq(c, a, b, r) ==
    IF FootInside(c, a, b)
    THEN Dist2(a, b) * Dist2(c, a) - Sq(Foot(c, a, b)) <= Sq(r) * Dist2(a, b)
    ELSE Dist2(c, a) <= Sq(r) \/ Dist2(c, b) <= Sq(r)

SegDistLess(c, a, b, r) ==
    IF FootInside(c, a, b)
    THEN Dist2(a, b) * Dist2(c, a) - Sq(Foot(c, a, b)) < Sq(r) * Dist2(a, b)
    ELSE Dist2(c, a) < Sq(r) \/ Dist2(c, b) < Sq(r)

\* the distance of c to the polyline is at most r / less than r / exactly r
PolyDistLeq(c, line, r) ==
    \E j \in 1..(Len(line) - 1) : SegDistLeq(c, line[j], line[j + 1], r)

PolyDistLess(c, line, r) ==
    \E j \in 1..(Len(line) - 1) : SegDistLess(c, line[j], line[j + 1], r)

PolyDistEq(c, line, r) == PolyDistLeq(c, line, r) /\ ~PolyDistLess(c, line, r)

\* c is at exactly r of the polyline, measured along a perpendicular whose foot
\* lies on a segment
PerpendicularAt(c, line, r) ==
    /\ PolyDistEq(c, line, r)
    /\ \E j \in 1..(Len(line) - 1) :
          FootInside(c, line[j], line[j + 1]) /\ SegDistLeq(c, line[j], line[j + 1], r)

\* the route and a candidate in degree space (lattice units) and projected
DegLine == [j \in 1..Len(route_points) |-> [x |-> route_points[j].lng, y |-> route_points[j].lat]]

DegPoint(loc) == [x |-> loc.lon, y |-> loc.lat]

UtmLine == RouteUtm(route_points)

UtmPoint(loc) == Project(loc.lat, loc.lon)

Returned(loc) == \E k \in 1..Len(stations) : stations[k] = loc

Candidates == {fuel_locations[k] : k \in 1..Len(fuel_locations)}

KdReturned == entry = "kdtree" /\ pc = "done"

GeoReturned == entry = "geopandas" /\ pc = "done"

\* C1: find_fuel_stations_kdtree returns every candidate whose degree-space
\* distance to the route polyline is at most radiusDegrees.
C1_NoCandidateMissed ==
    (KdReturned /\ IsValidRoute(route_points)) =>
        \A loc \in Candidates :
            PolyDistLeq(DegPoint(loc), DegLine, DistanceDegrees(distance_miles))
                => Returned(loc)

\* C3: on a route of two identical points neither search method returns a
\* result; both fail with an InvalidGeometry error.
C3_DegenerateRouteRaises ==
    (entry \in {"kdtree", "geopandas"} /\ ~IsValidRoute(route_points)) =>
        /\ pc # "done"
        /\ error \in {"none", "InvalidGeometry"}

\* C4: the indices accumulated over the batches are those of a single pass over
\* all densified points, and every densified point is queried exactly once.
C4_BatchingPreservesResult ==
    LET n == Len(interpolated_points)
        r == DistanceDegrees(distance_miles)
        SinglePass(m) ==
            {idx \in 0..(Len(fuel_locations) - 1) :
                \E k \in 1..m : InBall(fuel_locations[idx + 1], interpolated_points[k], r)}
    IN  /\ (entry = "kdtree" /\ pc = "kd_loop") =>
              /\ nearby_indices = SinglePass(Min(i, n))
              /\ \A k \in 1..n : queried[k] = IF k <= i THEN 1 ELSE 0
        /\ KdReturned =>
              /\ nearby_indices = SinglePass(n)
              /\ \A k \in 1..n : queried[k] = 1

\* batches of two over an odd number of densified points, with a match
C4_Witness ==
    /\ KdReturned
    /\ batch_size = 2
    /\ Len(interpolated_points) = 5
    /\ nearby_indices # {}

\* squared degree-space distance of a candidate to a densified sample, times the
\* square of the sample's denominator
SampleDist2(loc, s) == Sq(loc.lat * s.den - s.lat) + Sq(loc.lon * s.den - s.lng)

Samples == {interpolated_points[k] : k \in 1..Len(interpolated_points)}

\* some sample is at exactly the degree radius of the candidate
KdAtRadius(loc) ==
    \E s \in Samples :
        ~s.nan /\ SampleDist2(loc, s) = Sq(DistanceDegrees(distance_miles)) * Sq(s.den)

\* every sample is farther than the degree radius from the candidate
KdBeyondRadius(loc) ==
    \A s \in Samples :
        s.nan \/ SampleDist2(loc, s) > Sq(DistanceDegrees(distance_miles)) * Sq(s.den)

C6_CapWitness ==
    /\ GeoReturned
    /\ IsValidRoute(route_points)
    /\ \E loc \in Candidates :
          /\ PolyDistEq(UtmPoint(loc), UtmLine, BufferDistance(distance_miles))
          /\ ~PerpendicularAt(UtmPoint(loc), UtmLine, BufferDistance(distance_miles))
          /\ ~Returned(loc)

\* the route's axis-aligned bounding box is within r of c
NearBoundingBox(c, line, r) ==
    \E x \in -50..50, y \in -50..50 :
        /\ \E j, k \in 1..Len(line) : line[j].x <= x /\ x <= line[k].x
        /\ \E j, k \in 1..Len(line) : line[j].y <= y /\ y <= line[k].y
        /\ Sq(c.x - x) + Sq(c.y - y) <= Sq(r)

\* C7: a candidate farther than the radius from every point of the route is
\* returned by neither method, wherever it lies relative to the route's
\* bounding box.
C7_NothingBeyondTheRadius ==
    \A loc \in Candidates :
        /\ (GeoReturned /\ ~PolyDistLeq(UtmPoint(loc), UtmLine, BufferDistance(distance_miles)))
              => ~Returned(loc)
        /\ (KdReturned /\ ~PolyDistLeq(DegPoint(loc), DegLine, DistanceDegrees(distance_miles)))
              => ~Returned(loc)

\* a candidate inside the bounding box of a valid route and farther than the
\* radius from the route, left out by the projected-buffer method
C7_Witness ==
    /\ GeoReturned
    /\ IsValidRoute(route_points)
    /\ stations = <<>>
    /\ \E loc \in Candidates :
          /\ NearBoundingBox(UtmPoint(loc), UtmLine, 0)
          /\ ~PolyDistLeq(UtmPoint(loc), UtmLine, BufferDistance(distance_miles))

\* the harness has just received the result of find_fuel_stations_kdtree
KdResultInHarness == entry = "main" /\ method_name = "KDTree" /\ pc = "tsm_end"

\* the number of densified samples within the degree radius of a candidate
Matches(loc) ==
    Cardinality({k \in 1..Len(interpolated_points) :
        ~interpolated_points[k].nan
        /\ SampleDist2(loc, interpolated_points[k])
               <= Sq(DistanceDegrees(distance_miles)) * Sq(interpolated_points[k].den)})

\* C5: the result of find_fuel_stations_kdtree holds each matched position of
\* fuel_locations once, however many samples or batches matched it, in strictly
\* ascending order of position.
C5_EachIndexOnceAscending ==
    KdResultInHarness =>
        \E f \in [1..Len(stations) -> 0..(Len(fuel_locations) - 1)] :
            /\ \A j, k \in 1..Len(stations) : j < k => f[j] < f[k]
            /\ \A k \in 1..Len(stations) : stations[k] = fuel_locations[f[k] + 1]
            /\ {f[k] : k \in 1..Len(stations)} =
                   {idx \in 0..(Len(fuel_locations) - 1) : Matches(fuel_locations[idx + 1]) > 0}

\* two different candidates, each matched by several samples in different batches
C5_Witness ==
    /\ KdResultInHarness
    /\ batch_size = 1
    /\ Len(stations) = 2
    /\ stations[1] # stations[2]
    /\ \A k \in 1..2 : Matches(fuel_locations[k]) >= 2

Steps == <<"gc", "baseline", "start", "invoke", "end", "peak", "perf", "return">>

Methods == <<"GeoPandas", "KDTree">>

\* the readings logged for the m-th method
ReadingOf(m, step) ==
    LET k == CHOOSE k \in 1..Len(Steps) : Steps[k] = step
    IN  events[(m - 1) * Len(Steps) + k][3]

Searching == pc \in {"geopandas", "kd_start", "kd_loop"}

\* C8: for each method the harness collects garbage, reads the baseline memory,
\* starts the timer, invokes the method, stops the timer and reads the peak
\* memory, in this order; perf is {end - start, peak - baseline, number of
\* results}; and KDTree's sequence begins after GeoPandas' has completed.
C8_HarnessOrderAndPerf ==
    /\ Len(events) <= Len(Methods) * Len(Steps)
    /\ \A k \in 1..Len(events) :
          /\ events[k][1] = Methods[((k - 1) \div Len(Steps)) + 1]
          /\ events[k][2] = Steps[((k - 1) % Len(Steps)) + 1]
    /\ Searching => events[Len(events)] = <<method_name, "invoke", NULL>>
    /\ Len(events) >= Len(Steps) =>
          /\ geopandas_perf =
                 [time   |-> ReadingOf(1, "end") - ReadingOf(1, "start"),
                  memory |-> ReadingOf(1, "peak") - ReadingOf(1, "baseline"),
                  count  |-> Len(geopandas_stations)]
    /\ Len(events) = 2 * Len(Steps) =>
          /\ kdtree_perf =
                 [time   |-> ReadingOf(2, "end") - ReadingOf(2, "start"),
                  memory |-> ReadingOf(2, "peak") - ReadingOf(2, "baseline"),
                  count  |-> Len(kdtree_stations)]

\* both methods measured, GeoPandas taking time and memory, KDTree releasing memory
C8_Witness ==
    /\ pc = "done"
    /\ geopandas_perf.time > 0
    /\ geopandas_perf.memory > 0
    /\ kdtree_perf.time = 0
    /\ kdtree_perf.memory < 0
    /\ kdtree_perf.count = 1

\* the identifiers of a result list, counted one identifier at a time
Found(found, id) == \E k \in 1..Len(found) : found[k].locationId = id

KnownIds == {fuel_locations[k].locationId : k \in 1..Len(fuel_locations)}

InBoth == {id \in KnownIds : Found(geopandas_stations, id) /\ Found(kdtree_stations, id)}

OnlyGeopandas == {id \in KnownIds : Found(geopandas_stations, id) /\ ~Found(kdtree_stations, id)}

OnlyKdtree == {id \in KnownIds : Found(kdtree_stations, id) /\ ~Found(geopandas_stations, id)}

\* C9: once both methods have run, the comparison reports the size of the
\* intersection of the two identifier sets and the number of identifiers only
\* each method found; it always completes, whatever the two sets are, and the
\* report that follows depends only on the KDTree result being non-empty.
C9_ComparisonReportsAgreement ==
    /\ pc = "main_compare" => (error = "none" /\ ENABLED MainCompare)
    /\ pc = "main_print" => (error = "none" /\ ENABLED MainPrint)
    /\ (entry = "main" /\ pc \in {"main_print", "done"}) =>
          /\ comparison_data.matching = <<Cardinality(InBoth), Cardinality(InBoth)>>
          /\ comparison_data.unique = <<Cardinality(OnlyGeopandas), Cardinality(OnlyKdtree)>>
    /\ (entry = "main" /\ pc = "done") =>
          /\ error = "none"
          /\ Len(events) = Len(Methods) * Len(Steps)
          /\ printed <=> (Len(kdtree_stations) > 0)

\* the two methods found different stations and nothing in common
C9_Witness ==
    /\ entry = "main"
    /\ pc = "done"
    /\ comparison_data.matching = <<0, 0>>
    /\ comparison_data.unique = <<1, 1>>

\* C10: no step of the harness or of either search method changes route_points
\* or fuel_locations, so KDTree is given what GeoPandas was given.
C10_InputsNeverMutated ==
    [][route_points' = route_points /\ fuel_locations' = fuel_locations]_vars

\* both methods have run and returned stations
C10_Witness ==
    /\ entry = "main"
    /\ pc = "done"
    /\ Len(geopandas_stations) > 0
    /\ Len(kdtree_stations) > 0
    /\ Len(fuel_locations) = 2

GrpReturned == entry = "get_route_points" /\ pc = "done"

FirstStepPoint == steps[1][1]

LastStepPoint == steps[Len(steps)][Len(steps[Len(steps)])]

RECURSIVE StepPointCount(_)
StepPointCount(n) == IF n = 0 THEN 0 ELSE StepPointCount(n - 1) + Len(steps[n])

\* the point at position k of the steps read one after the other
StepPointAt(k) ==
    LET n == CHOOSE n \in 1..Len(steps) : StepPointCount(n - 1) < k /\ k <= StepPointCount(n)
    IN  steps[n][k - StepPointCount(n - 1)]

\* C11: with a tolerance above 0 get_route_points returns at most as many points
\* as the steps hold, beginning and ending with the first and last step points;
\* with a tolerance of 0 it returns the concatenated step points unchanged.
C11_SimplifyKeepsEndsNeverGrows ==
    GrpReturned =>
        IF simplify_tolerance > 0
        THEN /\ Len(returned_points) <= StepPointCount(Len(steps))
             /\ returned_points[1] = FirstStepPoint
             /\ returned_points[Len(returned_points)] = LastStepPoint
        ELSE /\ Len(returned_points) = StepPointCount(Len(steps))
             /\ \A k \in 1..Len(returned_points) : returned_points[k] = StepPointAt(k)

\* a route of two steps that lost points to the simplifier
C11_Witness ==
    /\ GrpReturned
    /\ simplify_tolerance > 0
    /\ Len(steps) = 2
    /\ Len(returned_points) = 3
    /\ StepPointCount(Len(steps)) = 5
    /\ FirstStepPoint # LastStepPoint

\* both coordinates are numbers, or texts holding numbers, within the limits
WellPlaced(location) ==
    /\ location.lat.kind \in {"number", "text"}
    /\ location.lon.kind \in {"number", "text"}
    /\ location.lat.val >= -LatLimit /\ location.lat.val <= LatLimit
    /\ location.lon.val >= -LonLimit /\ location.lon.val <= LonLimit

\* the locations of a list that are (or are not) well placed, in order
RECURSIVE Select(_, _)
Select(locations, wanted) ==
    IF locations = <<>> THEN <<>>
    ELSE (IF WellPlaced(Head(locations)) = wanted THEN <<Head(locations)>> ELSE <<>>)
             \o Select(Tail(locations), wanted)

Validating == entry \in {"validate_fuel_locations", "get_fuel_locations_with_prices"}

\* validate_fuel_locations has returned its two lists
ValidateReturned ==
    \/ entry = "validate_fuel_locations" /\ pc = "done"
    \/ entry = "get_fuel_locations_with_prices" /\ pc \in {"gfl_return", "done"}

\* what validate_fuel_locations returns is the partition of its input into the
\* well placed locations and the others, each in the input's order
C12_PartitionWhenReturned ==
    ValidateReturned =>
        /\ valid_locations = Select(formatted_locations, TRUE)
        /\ invalid_locations = Select(formatted_locations, FALSE)

\* C12: for every input validate_fuel_locations returns two lists that hold each
\* location once, in order, the valid list holding exactly the locations whose
\* lat and lon convert to numbers within the limits; and
\* get_fuel_locations_with_prices passes on the valid list only.
C12_ValidatePartitions ==
    /\ C12_PartitionWhenReturned
    /\ entry = "validate_fuel_locations" => pc # "raised"
    /\ (entry = "get_fuel_locations_with_prices" /\ pc = "done") =>
          /\ loaded = Select(formatted_locations, TRUE)
          /\ \A k \in 1..Len(loaded) : WellPlaced(loaded[k])

ZoneComputed == entry = "utm_zone" /\ pc \in {"utm_project", "done", "raised"}

\* C13: for a centroid longitude between -180 and 180 the zone computed is
\* floor((centerLon + 180) / 6) + 1 and is one of the zones 1..60.
C13_ZoneIsOneOfSixty ==
    (ZoneComputed /\ center_lon.num >= -180 * center_lon.den
                  /\ center_lon.num <= 180 * center_lon.den) =>
        /\ utm_zone = ((center_lon.num + 180 * center_lon.den) \div (6 * center_lon.den)) + 1
        /\ utm_zone >= 1
        /\ utm_zone <= 60

Compared == entry = "main" /\ pc \in {"main_print", "done"}

\* C14: in the comparison table each method's Total Stations equals its Matching
\* Stations plus its Unique Stations, whatever the two methods returned.
C14_TotalIsMatchingPlusUnique ==
    Compared =>
        \A m \in 1..2 :
            comparison_data.total[m] = comparison_data.matching[m] + comparison_data.unique[m]

====
